---- MODULE Spec2Model ----
(***************************************************************************)
(* Verification model of morphomatics/manifold/FundamentalCoords.py:       *)
(* construction (setup_spanning_tree_path), the encoder/decoder            *)
(* (to_coords, from_coords), projToGeodesic and the frame of update_ref_geom.*)
(***************************************************************************)
EXTENDS Integers, Sequences, FiniteSets, TLC

(***************************************************************************)
(* Bounds of the model.                                                    *)
(***************************************************************************)
\* number of faces of the reference surface (len(self.ref.f))
NF == 4
\* largest configured FCM_INTEGRATION_ITER explored
MaxIter == 3

Faces == 0 .. (NF - 1)

(***************************************************************************)
(* The reference surface's face adjacency, self.ref.inner_edges: a sparse  *)
(* symmetric matrix whose stored entry (i, j) carries the id of the inner  *)
(* edge between faces i and j. It is modelled as its set of stored entries *)
(* <<row, col, data>>. Edge ids are 0-based and unique per inner edge.     *)
(***************************************************************************)
FacePairs == {p \in Faces \X Faces : p[1] < p[2]}

PairLess(p, q) == p[1] < q[1] \/ (p[1] = q[1] /\ p[2] < q[2])

\* id of inner edge p among the inner edges E (numbered in row-major order)
EdgeId(E, p) == Cardinality({q \in E : PairLess(q, p)})

\* the stored entries of inner_edges for the set E of inner edges
InnerEdgesOf(E) ==
    {<<p[1], p[2], EdgeId(E, p)>> : p \in E} \cup {<<p[2], p[1], EdgeId(E, p)>> : p \in E}

\* a triangle has three edges: no face has more than three inner-edge neighbours
Degree(E, f) == Cardinality({p \in E : p[1] = f \/ p[2] = f})

Meshes == {E \in SUBSET FacePairs : \A f \in Faces : Degree(E, f) <= 3}

VARIABLES
    inner_edges,        \* self.ref.inner_edges, as the set of its stored entries
    init_face,          \* self.init_face
    integration_iter,   \* self.integration_iter
    pc,                 \* position in __init__ / from_coords
    depth,              \* setup_spanning_tree_path: depth
    idcs,               \* setup_spanning_tree_path: idcs (FIFO queue)
    idx,                \* setup_spanning_tree_path: idx
    d,                  \* setup_spanning_tree_path: d
    neighs,             \* setup_spanning_tree_path: rest of zip(neighs.col, neighs.data)
    spanningTreePath,   \* setup_spanning_tree_path: spanningTreePath, then self.spanning_tree_path
    C,                  \* from_coords: C, the transition rotations of the argument c
    CCpath,             \* from_coords: CC of lines 150-153 (transitions along the path)
    l,                  \* from_coords: number of path triples already walked
    R,                  \* from_coords: R, one rotation per face
    Rwrites,            \* how often the walk has assigned R[f]
    Dijk,               \* from_coords: Dijk, one blended matrix per face
    n_iter,             \* from_coords: n_iter
    v,                  \* from_coords: v (<<>> while the name is unbound)
    steps,              \* the steps from_coords has performed, in order
    X,                  \* projToGeodesic: X
    Y,                  \* projToGeodesic: Y
    P,                  \* projToGeodesic: P
    max_iter,           \* projToGeodesic: max_iter
    metric,             \* self.metric: the diagonal's weight of each block
    Pi,                 \* projToGeodesic: Pi
    passes,             \* projToGeodesic: loop passes begun
    trail,              \* the values Pi has had, in order
    gpc,                \* position in projToGeodesic
    heap,               \* the arrays alive: id -> <<content, generation, writes>>
    narrays,            \* number of arrays the caller holds (ids 1 .. narrays)
    refv,               \* self.ref.v: the id of the array it refers to
    op                  \* the operation called last

treeVars == <<depth, idcs, idx, d, neighs, spanningTreePath>>
meshVars == <<inner_edges, init_face, integration_iter>>
decVars == <<C, CCpath, l, R, Rwrites, Dijk, n_iter, v, steps>>
geoVars == <<X, Y, P, max_iter, metric, Pi, passes, trail, gpc>>
modelVars == <<heap, narrays, refv, op>>
vars == <<meshVars, pc, treeVars, decVars, geoVars, modelVars>>

(***************************************************************************)
(* setup_spanning_tree_path                                                *)
(***************************************************************************)
RECURSIVE SortByCol(_)
SortByCol(S) ==
    IF S = {} THEN <<>>
    ELSE LET m == CHOOSE x \in S : \A y \in S : x[1] <= y[1]
         IN  <<m>> \o SortByCol(S \ {m})

\* inner_edges.getrow(i).tocoo(): the stored <<col, data>> of row i, by column
GetRow(M, i) == SortByCol({<<e[2], e[3]>> : e \in {x \in M : x[1] = i}})

VisitedLoose(dep, neigh) == dep[neigh] > 0

\* line 448: depth[neigh] >= 0
Visited(dep, neigh) == dep[neigh] >= 0

TreeInit ==
    /\ depth = [f \in Faces |-> IF f = init_face THEN 0 ELSE -1]
    /\ idcs = <<init_face>>
    /\ idx = -1
    /\ d = -1
    /\ neighs = <<>>
    /\ spanningTreePath = <<>>

\* while idcs: idx = idcs.pop(0) ...
TreePop ==
    /\ pc = "tree_while"
    /\ idcs # <<>>
    /\ idx' = Head(idcs)
    /\ idcs' = Tail(idcs)
    /\ d' = depth[Head(idcs)] + 1
    /\ neighs' = GetRow(inner_edges, Head(idcs))
    /\ pc' = "tree_for"
    /\ UNCHANGED <<geoVars, modelVars, meshVars, depth, spanningTreePath, decVars>>

\* if depth[neigh] >= 0: continue
TreeSkip ==
    /\ pc = "tree_for"
    /\ neighs # <<>>
    /\ Visited(depth, Head(neighs)[1])
    /\ neighs' = Tail(neighs)
    /\ UNCHANGED <<geoVars, modelVars, meshVars, pc, depth, idcs, idx, d, spanningTreePath, decVars>>

TreeDiscoverPrepend ==
    /\ pc = "tree_for"
    /\ neighs # <<>>
    /\ ~Visited(depth, Head(neighs)[1])
    /\ LET neigh == Head(neighs)[1]
           edge  == Head(neighs)[2]
       IN  /\ depth' = [depth EXCEPT ![neigh] = d]
           /\ idcs' = Append(idcs, neigh)
           /\ spanningTreePath' = <<<<edge, idx, neigh>>>> \o spanningTreePath
    /\ neighs' = Tail(neighs)
    /\ UNCHANGED <<geoVars, modelVars, meshVars, pc, idx, d, decVars>>

\* lines 447-453: depth[neigh] = d; idcs.append(neigh); spanningTreePath.append(...)
TreeDiscover ==
    /\ pc = "tree_for"
    /\ neighs # <<>>
    /\ ~Visited(depth, Head(neighs)[1])
    /\ LET neigh == Head(neighs)[1]
           edge  == Head(neighs)[2]
       IN  /\ depth' = [depth EXCEPT ![neigh] = d]
           /\ idcs' = Append(idcs, neigh)
           /\ spanningTreePath' = Append(spanningTreePath, <<edge, idx, neigh>>)
    /\ neighs' = Tail(neighs)
    /\ UNCHANGED <<geoVars, modelVars, meshVars, pc, idx, d, decVars>>

TreeForEnd ==
    /\ pc = "tree_for"
    /\ neighs = <<>>
    /\ pc' = "tree_while"
    /\ UNCHANGED <<geoVars, modelVars, meshVars, treeVars, decVars>>

\* return np.asarray(spanningTreePath); self.spanning_tree_path = ...
TreeReturn ==
    /\ pc = "tree_while"
    /\ idcs = <<>>
    /\ pc' = "constructed"
    /\ UNCHANGED <<geoVars, modelVars, meshVars, treeVars, decVars>>

(***************************************************************************)
(* Matrices of the encoder and the decoder, as far as their orientation    *)
(* goes. The transition rotation frame[a]^T * frame[b] from face a to face *)
(* b is the pair <<a, b>>; its transpose is frame[b]^T * frame[a], the     *)
(* pair <<b, a>>. Zero is the zero matrix; Mixed is a sum of two           *)
(* transition rotations, which is no transition rotation.                  *)
(***************************************************************************)
Zero == <<-1, -1>>
Mixed == <<-2, -2>>

\* np.einsum("...ij->...ji", A)
Transpose(A) == IF A[1] < 0 THEN A ELSE <<A[2], A[1]>>

\* A + B
MatAdd(A, B) == IF A = Zero THEN B ELSE IF B = Zero THEN A ELSE Mixed

\* sparse.triu(M): the stored entries on or above the diagonal
Triu(M) == {e \in M : e[1] <= e[2]}

\* sparse.tril(M): the stored entries on or below the diagonal
Tril(M) == {e \in M : e[1] >= e[2]}

\* int(0.5 * self.ref.inner_edges.getnnz())
NumEdges(M) == Cardinality(M) \div 2

\* to_coords, lines 123-126: C[e.data] = frame[e.row]^T * frame[e.col] over
\* the entries e of triu(inner_edges)
ToCoordsC(M) ==
    [k \in 0 .. (NumEdges(M) - 1) |->
        LET e == CHOOSE x \in Triu(M) : x[3] = k IN <<e[1], e[2]>>]

\* from_coords, lines 149-153: CoI = C[eIds]; CC = CoI where source < target,
\* CoI transposed elsewhere
OrganizeCC(path, Cb) ==
    [k \in 1 .. Len(path) |->
        IF path[k][2] < path[k][3] THEN Cb[path[k][1]]
        ELSE Transpose(Cb[path[k][1]])]

\* e[i, n] of a sparse matrix whose stored data was raised by one (line 172):
\* the raised data of the stored entry, 0 where nothing is stored
Lookup1(T, i, n) ==
    IF \E e \in T : e[1] = i /\ e[2] = n
    THEN (CHOOSE e \in T : e[1] = i /\ e[2] = n)[3] + 1
    ELSE 0

\* lines 174-175: CC[e.data] = C[e.data - 1] on an array with a zero block 0
CCArr(M, Cb, k) ==
    IF \E e \in Triu(M) : e[3] + 1 = k THEN Cb[k - 1] ELSE Zero

\* lines 174-175: CCt[f.data] = C[f.data - 1]^T on an array with a zero block 0
CCtArr(M, Cb, k) ==
    IF \E e \in Tril(M) : e[3] + 1 = k THEN Transpose(Cb[k - 1]) ELSE Zero

LocalTransitionSwapped(M, Cb, i, n) ==
    MatAdd(CCArr(M, Cb, Lookup1(Triu(M), i, n)), CCtArr(M, Cb, Lookup1(Tril(M), i, n)))

\* lines 199-203: CCt[e[i, n]] + CC[f[i, n]], the transition rotation used for
\* face i and its neighbour n
LocalTransition(M, Cb, i, n) ==
    MatAdd(CCtArr(M, Cb, Lookup1(Triu(M), i, n)), CCArr(M, Cb, Lookup1(Tril(M), i, n)))

(***************************************************************************)
(* self.ref.neighbors: idx_k are the faces with exactly k inner-edge       *)
(* neighbours, n_k their neighbours (k columns, by face id).               *)
(***************************************************************************)
RECURSIVE SortAsc(_)
SortAsc(S) ==
    IF S = {} THEN <<>>
    ELSE LET m == CHOOSE x \in S : \A y \in S : x <= y
         IN  <<m>> \o SortAsc(S \ {m})

NeighboursOf(M, f) == {e[2] : e \in {x \in M : x[1] = f}}

Idx(M, k) == {f \in Faces : Cardinality(NeighboursOf(M, f)) = k}

\* n_k[row of f, j] (j 0-based as in the source)
Nk(M, f, j) == SortAsc(NeighboursOf(M, f))[j + 1]

(***************************************************************************)
(* Terms of the blended matrices Dijk: <<kind, neighbour, iteration,       *)
(* transition>>. "R0" is the copy of the initial rotation (Dijk = R.copy());*)
(* "nb" is the contribution of one neighbour in one local step.            *)
(***************************************************************************)
InitialTerm == <<"R0", -1, -1, Zero>>

Contribution(M, Cb, i, n, it) == <<"nb", n, it, LocalTransition(M, Cb, i, n)>>

\* line 199: Dijk[idx_1] = contribution of n_1[:, 0]
Local1(M, Cb, D, it) ==
    [f \in Faces |->
        IF f \in Idx(M, 1) THEN <<Contribution(M, Cb, f, Nk(M, f, 0), it)>> ELSE D[f]]

\* lines 200-201: if n_2.shape[0] > 0: Dijk[idx_2] = Dijk[idx_2] + contribution of n_2[:, 1]
Local2(M, Cb, D, it) ==
    IF Idx(M, 2) # {}
    THEN [f \in Faces |->
            IF f \in Idx(M, 2) THEN Append(D[f], Contribution(M, Cb, f, Nk(M, f, 1), it))
            ELSE D[f]]
    ELSE D

\* lines 202-203: if n_3.shape[0] > 0: Dijk[idx_3] = Dijk[idx_3] + contribution of n_3[:, 2]
Local3(M, Cb, D, it) ==
    IF Idx(M, 3) # {}
    THEN [f \in Faces |->
            IF f \in Idx(M, 3) THEN Append(D[f], Contribution(M, Cb, f, Nk(M, f, 2), it))
            ELSE D[f]]
    ELSE D

LocalStep(M, Cb, D, it) == Local3(M, Cb, Local2(M, Cb, Local1(M, Cb, D, it), it), it)

(***************************************************************************)
(* Vertex positions: points of the integer plane, one per tracked vertex.  *)
(***************************************************************************)
Verts == {0, 1}

\* self.init_vert (FCM_INIT_VERT, default 0)
init_vert == 0

\* self.ref.v
RefV == [i \in Verts |-> <<2 + 4 * i, 2>>]

\* self.CoG = self.ref.v.mean(axis=0)
Mean(w) == <<(w[0][1] + w[1][1]) \div 2, (w[0][2] + w[1][2]) \div 2>>

CoG == Mean(RefV)

\* results of self.poisson(rhs): the solver's output is not computed here,
\* any of these vertex sets may come back
SolveOutputs ==
    { [i \in Verts |-> <<4 * i, 0>>],
      [i \in Verts |-> <<2, 2 + 2 * i>>] }

\* a rotation by k quarter turns
RECURSIVE Rot(_, _)
Rot(k, p) == IF k = 0 THEN p ELSE Rot(k - 1, <<-p[2], p[1]>>)

QuarterTurns == 0 .. 3

BreakTestLate(n, N) == n = N

\* line 193: n_iter + 1 == self.integration_iter
BreakTest(n, N) == n + 1 = N

DecInit ==
    /\ C = <<>>
    /\ CCpath = <<>>
    /\ l = 0
    /\ R = <<>>
    /\ Rwrites = <<>>
    /\ Dijk = <<>>
    /\ n_iter = 0
    /\ v = <<>>
    /\ steps = <<>>

\* c = to_coords(v): the transition rotations of the encoded shape
ToCoords ==
    /\ pc = "constructed"
    /\ C' = ToCoordsC(inner_edges)
    /\ pc' = "fc_entry"
    /\ UNCHANGED <<geoVars, modelVars, meshVars, treeVars, CCpath, l, R, Rwrites, Dijk, n_iter, v, steps>>

\* from_coords, lines 142-155
FcOrganize ==
    /\ pc = "fc_entry"
    /\ CCpath' = OrganizeCC(spanningTreePath, C)
    /\ R' = [f \in Faces |-> <<>>]
    /\ Rwrites' = [f \in Faces |-> 0]
    /\ l' = 0
    /\ pc' = "fc_walk"
    /\ UNCHANGED <<geoVars, modelVars, meshVars, treeVars, C, Dijk, n_iter, v, steps>>

\* lines 158-160: R[ftargetId[l]] = R[fsourceId[l]] @ frame[source] @ CC[l] @ frame[target].T
\* (a rotation is the chain of transitions it was composed from)
FcWalk ==
    /\ pc = "fc_walk"
    /\ l < Len(spanningTreePath)
    /\ LET t == spanningTreePath[l + 1]
       IN  /\ R' = [R EXCEPT ![t[3]] = Append(R[t[2]], CCpath[l + 1])]
           /\ Rwrites' = [Rwrites EXCEPT ![t[3]] = @ + 1]
    /\ l' = l + 1
    /\ UNCHANGED <<geoVars, modelVars, meshVars, pc, treeVars, C, CCpath, Dijk, n_iter, v, steps>>

\* lines 162-180: Dijk = R.copy(); n_iter = 0
FcSetup ==
    /\ pc = "fc_walk"
    /\ l = Len(spanningTreePath)
    /\ Dijk' = [f \in Faces |-> <<InitialTerm>>]
    /\ n_iter' = 0
    /\ pc' = "fc_while"
    /\ UNCHANGED <<geoVars, modelVars, meshVars, treeVars, C, CCpath, l, R, Rwrites, v, steps>>

\* lines 181-189: the loop test holds; global step
FcGlobal ==
    /\ pc = "fc_while"
    /\ n_iter < integration_iter
    /\ \E s \in SolveOutputs : v' = s
    /\ steps' = Append(steps, "global")
    /\ pc' = "fc_break"
    /\ UNCHANGED <<geoVars, modelVars, meshVars, treeVars, C, CCpath, l, R, Rwrites, Dijk, n_iter>>

\* line 181: the loop test fails
FcLoopExit ==
    /\ pc = "fc_while"
    /\ ~(n_iter < integration_iter)
    /\ pc' = "fc_post"
    /\ UNCHANGED <<geoVars, modelVars, meshVars, treeVars, decVars>>

\* lines 193-194: break
FcBreak ==
    /\ pc = "fc_break"
    /\ BreakTest(n_iter, integration_iter)
    /\ pc' = "fc_post"
    /\ UNCHANGED <<geoVars, modelVars, meshVars, treeVars, decVars>>

\* lines 196-209: local step; R becomes the rotation fitted to Dijk
FcLocal ==
    /\ pc = "fc_break"
    /\ ~BreakTest(n_iter, integration_iter)
    /\ Dijk' = LocalStep(inner_edges, C, Dijk, n_iter)
    /\ R' = [f \in Faces |-> << <<-3, n_iter>> >>]
    /\ steps' = Append(steps, "local")
    /\ pc' = "fc_recenter"
    /\ UNCHANGED <<geoVars, modelVars, meshVars, treeVars, C, CCpath, l, Rwrites, n_iter, v>>

\* lines 211-213: v += self.CoG - v.mean(axis=0); n_iter += 1
FcRecenter ==
    /\ pc = "fc_recenter"
    /\ LET m == Mean(v)
       IN  v' = [i \in Verts |-> <<v[i][1] + CoG[1] - m[1], v[i][2] + CoG[2] - m[2]>>]
    /\ n_iter' = n_iter + 1
    /\ steps' = Append(steps, "recenter")
    /\ pc' = "fc_while"
    /\ UNCHANGED <<geoVars, modelVars, meshVars, treeVars, C, CCpath, l, R, Rwrites, Dijk>>

\* line 216 when no global step has bound v: UnboundLocalError
FcPostRaise ==
    /\ pc = "fc_post"
    /\ v = <<>>
    /\ pc' = "raised"
    /\ UNCHANGED <<geoVars, modelVars, meshVars, treeVars, decVars>>

\* line 216: v[:] = (frame_ref[init_face] @ frame_of_face(v, f, init_face).T @ v.T).T
FcPostRotate ==
    /\ pc = "fc_post"
    /\ v # <<>>
    /\ \E k \in QuarterTurns : v' = [i \in Verts |-> Rot(k, v[i])]
    /\ steps' = Append(steps, "rotate")
    /\ pc' = "fc_post2"
    /\ UNCHANGED <<geoVars, modelVars, meshVars, treeVars, C, CCpath, l, R, Rwrites, Dijk, n_iter>>

\* lines 217-220: v += self.ref.v[self.init_vert] - v[self.init_vert]; return v
FcPostTranslate ==
    /\ pc = "fc_post2"
    /\ v' = [i \in Verts |->
               <<v[i][1] + RefV[init_vert][1] - v[init_vert][1],
                 v[i][2] + RefV[init_vert][2] - v[init_vert][2]>>]
    /\ steps' = Append(steps, "translate")
    /\ pc' = "done"
    /\ UNCHANGED <<geoVars, modelVars, meshVars, treeVars, C, CCpath, l, R, Rwrites, Dijk, n_iter>>

(***************************************************************************)
(* The manifold of projToGeodesic. A point has one rotation block and one  *)
(* stretch block: <<"num", a, s>>, a an angle in steps of a full turn      *)
(* divided in CircleSteps, s a logarithmic stretch; <<"nan", 0, 0>> is an  *)
(* array of NaN. Tangent vectors are <<"num", g, h>> likewise. One grid    *)
(* unit is half the stopping tolerance 1e-6.                               *)
(***************************************************************************)
CircleSteps == 4
MaxStretch == 2
MaxProjIter == 3

\* the tolerance 1e-6 of line 345, in grid units
TolUnits == 2

NaN == <<"nan", 0, 0>>
Num(a, b) == <<"num", a, b>>
IsNaN(x) == x[1] = "nan"

Points == {Num(a, b) : a \in 0 .. (CircleSteps - 1), b \in 0 .. MaxStretch}

\* SO.log on one block: the shortest signed angle from a to b
SOlog(a, b) ==
    LET k == (b - a) % CircleSteps
    IN  IF 2 * k > CircleSteps THEN k - CircleSteps ELSE k

\* SO.exp on one block
SOexp(a, g) == (a + g) % CircleSteps

\* SPD.log on one block (logarithmic coordinates)
SPDlog(a, b) == b - a

\* SPD.exp on one block
SPDexp(a, g) == a + g

\* log, lines 285-299: block-wise
Log(A, B) ==
    IF IsNaN(A) \/ IsNaN(B) THEN NaN
    ELSE Num(SOlog(A[2], B[2]), SPDlog(A[3], B[3]))

\* exp, lines 264-278: block-wise
Exp(A, G) ==
    IF IsNaN(A) \/ IsNaN(G) THEN NaN
    ELSE Num(SOexp(A[2], G[2]), SPDexp(A[3], G[3]))

\* inner, line 232: G @ self.metric @ H.T (defined for numeric vectors)
Inner(m, G, H) == m[1] * G[2] * H[2] + m[2] * G[3] * H[3]

\* the nearest integer to p / q, q > 0
RoundDiv(p, q) == (2 * p + q) \div (2 * q)

\* lines 333-334: v = log(X, Y); v /= norm(X, v). The unit vector is kept as
\* the pair of log(X, Y) and its squared norm; a zero norm makes it NaN.
DirLog == Log(X, Y)
DirNorm2 == Inner(metric, DirLog, DirLog)
DirIsNaN == DirNorm2 = 0

\* lines 341-342 times the norm: <log(X, Y), log(Pi, P)>
Numerator(A) == Inner(metric, DirLog, Log(A, P))

\* line 345: abs(d) < 1e-6, d = Numerator / norm (false when d is NaN)
SmallD(A) ==
    /\ ~DirIsNaN
    /\ ~IsNaN(A)
    /\ Numerator(A) * Numerator(A) < TolUnits * TolUnits * DirNorm2

StepVectorUnnormalized(A) ==
    IF DirIsNaN \/ IsNaN(A) THEN NaN
    ELSE Num(DirLog[2] * Numerator(A), DirLog[3] * Numerator(A))

\* line 347: d * v, held to the grid
StepVector(A) ==
    IF DirIsNaN \/ IsNaN(A) THEN NaN
    ELSE Num(RoundDiv(DirLog[2] * Numerator(A), DirNorm2),
             RoundDiv(DirLog[3] * Numerator(A), DirNorm2))

InRangeInclusive(i, n) == i <= n

\* line 340: for _ in range(max_iter), before pass i + 1
InRange(i, n) == i < n

GeoIdle ==
    /\ X = NaN /\ Y = NaN /\ P = NaN
    /\ max_iter = 0
    /\ metric = <<1, 1>>
    /\ Pi = NaN
    /\ passes = 0
    /\ trail = <<>>
    /\ gpc = "idle"

\* lines 329-337: Pi = X
GeoInit ==
    /\ X \in Points
    /\ Y \in Points
    /\ P \in Points
    /\ max_iter \in 0 .. MaxProjIter
    /\ metric \in {<<1, 1>>, <<4, 2>>}
    /\ Pi = X
    /\ passes = 0
    /\ trail = <<X>>
    /\ gpc = "loop"

\* lines 340-345: a pass whose test holds: break, return Pi
ProjBreak ==
    /\ gpc = "loop"
    /\ InRange(passes, max_iter)
    /\ SmallD(Pi)
    /\ passes' = passes + 1
    /\ gpc' = "returned"
    /\ UNCHANGED <<X, Y, P, max_iter, metric, Pi, trail>>
    /\ UNCHANGED <<meshVars, pc, treeVars, decVars, modelVars>>

\* lines 340-347: a pass whose test fails: Pi = exp(Pi, d * v)
ProjMove ==
    /\ gpc = "loop"
    /\ InRange(passes, max_iter)
    /\ ~SmallD(Pi)
    /\ Pi' = Exp(Pi, StepVector(Pi))
    /\ trail' = Append(trail, Pi')
    /\ passes' = passes + 1
    /\ UNCHANGED <<X, Y, P, max_iter, metric, gpc>>
    /\ UNCHANGED <<meshVars, pc, treeVars, decVars, modelVars>>

\* lines 340, 349: the range is exhausted: return Pi
ProjExhausted ==
    /\ gpc = "loop"
    /\ ~InRange(passes, max_iter)
    /\ gpc' = "returned"
    /\ UNCHANGED <<X, Y, P, max_iter, metric, Pi, passes, trail>>
    /\ UNCHANGED <<meshVars, pc, treeVars, decVars, modelVars>>

ModelIdle ==
    /\ heap = <<>>
    /\ narrays = 0
    /\ refv = 0
    /\ op = "none"

DecodeIdle ==
    /\ inner_edges = {}
    /\ init_face = 0
    /\ integration_iter = 2
    /\ pc = "idle"
    /\ TreeInit
    /\ DecInit

ProjSpecInit == GeoInit /\ DecodeIdle /\ ModelIdle

ProjNext ==
    \/ ProjBreak
    \/ ProjMove
    \/ ProjExhausted

SpecProj == ProjSpecInit /\ [][ProjNext]_vars

(***************************************************************************)
(* The arrays of the model and of its callers. An array is a cell          *)
(* <<content, generation, writes>>: what it holds, the update that built   *)
(* it (0: construction, or an array of the caller) and how often it was    *)
(* written in place since. The model's own arrays have the ids below;      *)
(* self.ref.v refers to an array of the caller (update_ref_geom stores its *)
(* argument, it does not copy it).                                         *)
(***************************************************************************)
MaxArrays == 2
MaxUpdates == 2

Contents == {0, 1}

CoGCell == 0 - 1
PoissonCell == 0 - 2
FrameCell == 0 - 3
MetricCell == 0 - 4
PathCell == 0 - 5
DerivedCells == {CoGCell, PoissonCell, FrameCell, MetricCell}
ModelCells == DerivedCells \cup {PathCell}

(***************************************************************************)
(* The body of an operation, as far as arrays go: a sequence of            *)
(*   <<"view", n, m>>   n = a view (slice, reshape, alias) of m            *)
(*   <<"fresh", n, n>>  n = a newly allocated array                        *)
(*   <<"write", n, n>>  an in-place write through n (n[...] = , n += )     *)
(*   <<"ret", n, n>>    return n                                           *)
(* over names bound to arrays. An environment is a set of <<name, array>>, *)
(* an array being named by where it comes from: an argument (a1, a2, a3),  *)
(* an attribute of self, or "fresh" for one allocated in the call.         *)
(***************************************************************************)
ArgNames == {"a1", "a2", "a3"}

SelfNames ==
    { "self.ref.v", "self.CoG", "self.poisson", "self.ref_frame_field", "self.metric",
      "self.spanning_tree_path" }

Lookup(env, n) == (CHOOSE b \in env : b[1] = n)[2]

Bind(env, n, a) == {b \in env : b[1] # n} \cup {<<n, a>>}

RECURSIVE Run(_, _, _)
Run(body, k, st) ==
    IF k > Len(body) THEN st
    ELSE LET c == body[k]
         IN  CASE c[1] = "view" ->
                    Run(body, k + 1, [st EXCEPT !.env = Bind(st.env, c[2], Lookup(st.env, c[3]))])
               [] c[1] = "fresh" ->
                    Run(body, k + 1, [st EXCEPT !.env = Bind(st.env, c[2], "fresh")])
               [] c[1] = "write" ->
                    Run(body, k + 1, [st EXCEPT !.written = @ \cup {Lookup(st.env, c[2])}])
               [] OTHER ->
                    Run(body, k + 1, [st EXCEPT !.result = Lookup(st.env, c[2])])

\* the arrays a body writes in place and the array it returns
Effect(body) ==
    Run(body, 1, [env |-> {<<n, n>> : n \in ArgNames \cup SelfNames},
                  written |-> {}, result |-> "fresh"])

V(n, m) == <<"view", n, m>>
F(n) == <<"fresh", n, n>>
W(n) == <<"write", n, n>>
Ret(n) == <<"ret", n, n>>

\* disentangle, lines 87-94: two reshaped slices of c
Body_disentangle == << V("rot", "a1"), V("str", "a1"), Ret("rot") >>

\* to_coords, lines 96-133
Body_to_coords ==
    << F("D"), F("U"), F("S"), F("Vt"), F("R"), F("W"), W("W"), F("R"),
       W("S"), F("U"), V("ff", "self.ref_frame_field"), F("frame"),
       F("e"), F("C"), W("C"), F("Ulocal"), V("Ulocal", "Ulocal"), F("out"), Ret("out") >>

\* from_coords, lines 135-220 (one pass of the loop)
Body_from_coords ==
    << V("C", "a1"), V("Ulocal", "a1"),
       V("eIds", "self.spanning_tree_path"), V("fsourceId", "self.spanning_tree_path"),
       V("ftargetId", "self.spanning_tree_path"),
       F("CoI"), F("CC"), F("BB"), W("CC"), W("CC"),
       F("R"), W("R"),
       F("U"), W("U"), F("U"),
       F("e"), F("f"), W("e"), W("f"),
       F("CC"), F("CCt"), W("CC"), W("CCt"), F("e"), F("f"),
       F("Dijk"),
       F("D"), F("rhs"), F("v"),
       F("D"), W("Dijk"), W("Dijk"), W("Dijk"),
       F("Uijk"), F("R"), F("Wijk"), W("Wijk"), F("R"),
       V("cog", "self.CoG"), W("v"),
       V("ff", "self.ref_frame_field"), W("v"),
       V("rv", "self.ref.v"), W("v"), Ret("v") >>

\* inner, lines 226-232
Body_inner == << V("m", "self.metric"), F("out"), Ret("out") >>

\* proj, lines 234-245
Body_proj ==
    << V("R", "a1"), V("U", "a1"), V("r", "a2"), V("u", "a2"),
       F("r"), F("u"), F("out"), Ret("out") >>

\* egrad2rgrad, lines 247-262
Body_egrad2rgrad ==
    << V("R", "a1"), V("U", "a1"), V("r", "a2"), V("u", "a2"),
       F("r"), F("u"), F("grad"), V("m", "self.metric"), W("grad"), Ret("grad") >>

\* exp, lines 264-278, on (p1, p2) into out
ExpInto(p1, p2, out) ==
    << V("C", p1), V("U", p1), V("c", p2), V("u", p2),
       F(out), V("Cy", out), V("Uy", out), W("Cy"), W("Uy") >>

Body_exp == ExpInto("a1", "a2", "Y") \o << Ret("Y") >>

\* log, lines 285-299, on (p1, p2) into out
LogInto(p1, p2, out) ==
    << V("Cx", p1), V("Ux", p1), V("Cy", p2), V("Uy", p2),
       F(out), V("c", out), V("u", out), W("c"), W("u") >>

Body_log == LogInto("a1", "a2", "y") \o << Ret("y") >>

\* geopoint, lines 280-281: self.exp(X, t * self.log(X, Y))
Body_geopoint ==
    LogInto("a1", "a2", "lg") \o << F("tlg") >> \o ExpInto("a1", "tlg", "Y") \o << Ret("Y") >>

TranspNoRebind ==
    << V("X", "a1"), V("Y", "a2"), V("G", "a3"),
       V("Cx", "X"), V("Ux", "X"), V("Cy", "Y"), V("Uy", "Y"), V("cx", "G"), V("ux", "G"),
       V("cy", "Y"), V("uy", "Y"), F("t1"), W("cy"), F("t2"), W("uy"), Ret("Y") >>

\* transp, lines 301-320: Y = np.zeros_like(X) rebinds the name Y
Body_transp ==
    << V("X", "a1"), V("Y", "a2"), V("G", "a3"),
       V("Cx", "X"), V("Ux", "X"), V("Cy", "Y"), V("Uy", "Y"), V("cx", "G"), V("ux", "G"),
       F("Y"), V("cy", "Y"), V("uy", "Y"), F("t1"), W("cy"), F("t2"), W("uy"), Ret("Y") >>

\* projToGeodesic, lines 322-349 (a pass that moves Pi)
Body_projToGeodesic ==
    LogInto("a1", "a2", "v") \o << W("v"), V("Pi", "a1") >>
    \o LogInto("Pi", "a3", "w") \o << V("m", "self.metric"), F("dv") >>
    \o ExpInto("Pi", "dv", "Pi2") \o << V("Pi", "Pi2"), Ret("Pi") >>

\* jacop, lines 352-368
Body_jacop ==
    LogInto("a1", "a2", "lg") \o << V("v", "lg"), V("w", "lg"), F("zw"), W("w"), F("v"), Ret("v") >>

\* jacONB, lines 370-380
Body_jacONB ==
    << V("Cx", "a1"), V("Ux", "a1"), V("Cy", "a2"), V("Uy", "a2"), F("out"), Ret("out") >>

\* adjJacobi, lines 382-408, on (p1, p2, g)
AdjJacobiOn(p1, p2, g) ==
    << V("Cx", p1), V("Ux", p1), V("Cy", p2), V("Uy", p2), V("c", g), V("u", g),
       F("j"), V("jr", "j"), V("js", "j"), F("t1"), W("jr"), F("t2"), W("js"), Ret("j") >>

Body_adjJacobi == AdjJacobiOn("a1", "a2", "a3")

\* adjDxgeo, lines 410-414
Body_adjDxgeo == AdjJacobiOn("a1", "a2", "a3")

\* adjDygeo, lines 416-420: self.adjJacobi(Y, X, 1 - t, G)
Body_adjDygeo == AdjJacobiOn("a2", "a1", "a3")

\* rand, lines 422-427
Body_rand ==
    << F("v"), V("vr", "v"), V("vs", "v"), F("t1"), W("vr"), F("t2"), W("vs"), Ret("v") >>

ReadOps ==
    { "to_coords", "from_coords", "disentangle", "inner", "proj", "egrad2rgrad", "exp",
      "log", "geopoint", "transp", "projToGeodesic", "jacop", "jacONB", "adjJacobi",
      "adjDxgeo", "adjDygeo", "rand" }

CallerArrays == 1 .. narrays

Effect_disentangle == Effect(Body_disentangle)
Effect_to_coords == Effect(Body_to_coords)
Effect_from_coords == Effect(Body_from_coords)
Effect_inner == Effect(Body_inner)
Effect_proj == Effect(Body_proj)
Effect_egrad2rgrad == Effect(Body_egrad2rgrad)
Effect_exp == Effect(Body_exp)
Effect_log == Effect(Body_log)
Effect_geopoint == Effect(Body_geopoint)
Effect_transp == Effect(Body_transp)
Effect_projToGeodesic == Effect(Body_projToGeodesic)
Effect_jacop == Effect(Body_jacop)
Effect_jacONB == Effect(Body_jacONB)
Effect_adjJacobi == Effect(Body_adjJacobi)
Effect_adjDxgeo == Effect(Body_adjDxgeo)
Effect_adjDygeo == Effect(Body_adjDygeo)
Effect_rand == Effect(Body_rand)

\* the id of the array named n in a call on the caller's arrays a1, a2, a3
ArrayOf(n, a1, a2, a3) ==
    CASE n = "a1" -> a1
      [] n = "a2" -> a2
      [] n = "a3" -> a3
      [] n = "self.ref.v" -> refv
      [] n = "self.CoG" -> CoGCell
      [] n = "self.poisson" -> PoissonCell
      [] n = "self.ref_frame_field" -> FrameCell
      [] n = "self.metric" -> MetricCell
      [] n = "self.spanning_tree_path" -> PathCell
      [] OTHER -> narrays + 1

\* a call of a method with effect eff on the caller's arrays a1, a2, a3: the
\* arrays written in place gain a write; a newly allocated result joins the
\* caller's arrays while there is room for it
Call(name, eff, a1, a2, a3) ==
    LET written == {ArrayOf(n, a1, a2, a3) : n \in eff.written}
        old == [i \in DOMAIN heap |->
                   IF i \in written THEN <<heap[i][1], heap[i][2], heap[i][3] + 1>>
                   ELSE heap[i]]
    IN  /\ op' = name
        /\ refv' = refv
        /\ IF eff.result = "fresh" /\ narrays < MaxArrays
           THEN /\ narrays' = narrays + 1
                /\ \E c \in Contents :
                      heap' = [i \in DOMAIN heap \cup {narrays + 1} |->
                                  IF i = narrays + 1 THEN <<c, 0, 0>> ELSE old[i]]
           ELSE /\ narrays' = narrays
                /\ heap' = old
        /\ UNCHANGED <<meshVars, pc, treeVars, decVars, geoVars>>

Op_disentangle == \E a \in CallerArrays : Call("disentangle", Effect_disentangle, a, a, a)
Op_to_coords == \E a \in CallerArrays : Call("to_coords", Effect_to_coords, a, a, a)
Op_from_coords == \E a \in CallerArrays : Call("from_coords", Effect_from_coords, a, a, a)
Op_inner == \E a, b, c \in CallerArrays : Call("inner", Effect_inner, a, b, c)
Op_proj == \E a, b \in CallerArrays : Call("proj", Effect_proj, a, b, b)
Op_egrad2rgrad == \E a, b \in CallerArrays : Call("egrad2rgrad", Effect_egrad2rgrad, a, b, b)
Op_exp == \E a, b \in CallerArrays : Call("exp", Effect_exp, a, b, b)
Op_log == \E a, b \in CallerArrays : Call("log", Effect_log, a, b, b)
Op_geopoint == \E a, b \in CallerArrays : Call("geopoint", Effect_geopoint, a, b, b)
Op_transp == \E a, b, c \in CallerArrays : Call("transp", Effect_transp, a, b, c)
Op_projToGeodesic ==
    \E a, b, c \in CallerArrays : Call("projToGeodesic", Effect_projToGeodesic, a, b, c)
Op_jacop == \E a, b, c \in CallerArrays : Call("jacop", Effect_jacop, a, b, c)
Op_jacONB == \E a, b \in CallerArrays : Call("jacONB", Effect_jacONB, a, b, b)
Op_adjJacobi == \E a, b, c \in CallerArrays : Call("adjJacobi", Effect_adjJacobi, a, b, c)
Op_adjDxgeo == \E a, b, c \in CallerArrays : Call("adjDxgeo", Effect_adjDxgeo, a, b, c)
Op_adjDygeo == \E a, b, c \in CallerArrays : Call("adjDygeo", Effect_adjDygeo, a, b, c)
Op_rand == \E a \in CallerArrays : Call("rand", Effect_rand, a, a, a)

\* what update_ref_geom builds from the vertices in array a, at update g
Rebuilt(h, a, g) == <<h[a][1], g, 0>>

\* update_ref_geom, lines 66-85: self.ref.v = v, then CoG, poisson,
\* ref_frame_field and metric are assigned anew
Op_update_ref_geom ==
    /\ heap[CoGCell][2] < MaxUpdates
    /\ \E a \in CallerArrays :
          /\ refv' = a
          /\ heap' = [i \in DOMAIN heap |->
                         IF i \in DerivedCells THEN Rebuilt(heap, a, heap[CoGCell][2] + 1)
                         ELSE heap[i]]
    /\ op' = "update_ref_geom"
    /\ UNCHANGED narrays
    /\ UNCHANGED <<meshVars, pc, treeVars, decVars, geoVars>>

\* __init__, lines 36-53: the reference surface's vertices are array 1;
\* update_ref_geom(self.ref.v), then the spanning tree path
ConstructedPathCell == <<0, 0, 0>>

ModelInit ==
    /\ narrays = 1
    /\ refv = 1
    /\ \E c \in Contents :
          heap = [i \in ModelCells \cup {1} |->
                     IF i = 1 THEN <<c, 0, 0>>
                     ELSE IF i = PathCell THEN ConstructedPathCell
                     ELSE <<c, 0, 0>>]
    /\ op = "__init__"

FrameSpecInit == ModelInit /\ DecodeIdle /\ GeoIdle

FrameNext ==
    \/ Op_disentangle
    \/ Op_to_coords
    \/ Op_from_coords
    \/ Op_inner
    \/ Op_proj
    \/ Op_egrad2rgrad
    \/ Op_exp
    \/ Op_log
    \/ Op_geopoint
    \/ Op_transp
    \/ Op_projToGeodesic
    \/ Op_jacop
    \/ Op_jacONB
    \/ Op_adjJacobi
    \/ Op_adjDxgeo
    \/ Op_adjDygeo
    \/ Op_rand
    \/ Op_update_ref_geom

SpecFrame == FrameSpecInit /\ [][FrameNext]_vars

(***************************************************************************)
(* Reference notions for the claims about the spanning tree.               *)
(***************************************************************************)
Adjacent(M, a, b) == \E e \in M : e[1] = a /\ e[2] = b

RECURSIVE ReachFrom(_, _)
ReachFrom(M, S) ==
    LET T == S \cup {b \in Faces : \E a \in S : Adjacent(M, a, b)}
    IN  IF T = S THEN S ELSE ReachFrom(M, T)

\* the faces connected to the initial face in the face-adjacency graph
Reachable == ReachFrom(inner_edges, {init_face})

Returned == pc \notin {"tree_while", "tree_for"}

TargetCount(f) ==
    Cardinality({j \in 1 .. Len(spanningTreePath) : spanningTreePath[j][3] = f})

\* C1: setup_spanning_tree_path visits every face reachable from the initial
\* face exactly once: in the returned path every reachable face other than the
\* initial face is the target of exactly one triple, the initial face is never a
\* target, and no unreachable face appears in any triple (and, while the search
\* runs, no face is ever a target twice and no unreachable face is recorded).
C1_TreeVisitsReachableOnce ==
    /\ \A f \in Faces : TargetCount(f) <= 1
    /\ TargetCount(init_face) = 0
    /\ \A j \in 1 .. Len(spanningTreePath) :
          /\ spanningTreePath[j][2] \in Reachable
          /\ spanningTreePath[j][3] \in Reachable
    /\ Returned => \A f \in Reachable \ {init_face} : TargetCount(f) = 1

\* a finished search on a mesh with a cycle and with faces outside the initial
\* face's component: faces were skipped, discovered and left out
C1_Witness ==
    /\ Returned
    /\ Len(spanningTreePath) >= 2
    /\ Reachable # Faces
    /\ Cardinality(inner_edges) > 2 * Len(spanningTreePath)

\* C2 as stated: the path has one triple fewer than the mesh has faces, on
\* every mesh, connected or not.
C2_Original == Returned => Len(spanningTreePath) = NF - 1

\* C2 as amended: the path has one triple fewer than there are faces reachable
\* from the initial face (which is NF - 1 exactly when the mesh is connected).
C2_TripleCount ==
    /\ Returned => Len(spanningTreePath) = Cardinality(Reachable) - 1
    /\ (Returned /\ Reachable = Faces) => Len(spanningTreePath) = NF - 1

\* a finished search on a disconnected mesh that recorded at least one triple
C2_Witness ==
    /\ Returned
    /\ Reachable # Faces
    /\ Len(spanningTreePath) >= 1
    /\ Len(spanningTreePath) < NF - 1


(***************************************************************************)
(* Claims about from_coords.                                               *)
(***************************************************************************)
LoopSteps == SelectSeq(steps, LAMBDA x : x \in {"global", "local", "recenter"})

PostSteps == SelectSeq(steps, LAMBDA x : x \in {"rotate", "translate"})

RECURSIVE ExpectedLoopSteps(_)
ExpectedLoopSteps(N) ==
    IF N <= 1 THEN <<"global">>
    ELSE ExpectedLoopSteps(N - 1) \o <<"local", "recenter", "global">>

IsPrefix(s, t) == Len(s) <= Len(t) /\ SubSeq(t, 1, Len(s)) = s

CountOf(s, x) == Cardinality({j \in 1 .. Len(s) : s[j] = x})

LoopLeft == pc \in {"fc_post", "fc_post2", "done", "raised"}

\* C3: with integration_iter = N >= 1, from_coords performs exactly N global
\* steps, N - 1 local steps and N - 1 recenterings, in the order global, local,
\* recenter, global, ..., ending with a global step: at every moment the steps
\* performed are a prefix of that sequence, and when the loop is left they are
\* the whole of it.
C3_LoopSchedule ==
    integration_iter >= 1 =>
        /\ IsPrefix(LoopSteps, ExpectedLoopSteps(integration_iter))
        /\ LoopLeft =>
              /\ LoopSteps = ExpectedLoopSteps(integration_iter)
              /\ CountOf(steps, "global") = integration_iter
              /\ CountOf(steps, "local") = integration_iter - 1
              /\ CountOf(steps, "recenter") = integration_iter - 1
              /\ LoopSteps[Len(LoopSteps)] = "global"

\* from_coords has returned after three iterations: two local steps were taken
C3_Witness ==
    /\ pc = "done"
    /\ integration_iter = 3
    /\ LoopSteps = <<"global", "local", "recenter", "global", "local", "recenter", "global">>

\* C4 as stated: for every integration_iter, 0 included, from_coords reaches the
\* post-processing and returns, having rotated first and translated second, a
\* vertex set whose fixed vertex lies on its reference position.
C4_PostProcessingAlways ==
    /\ pc # "raised"
    /\ pc = "done" =>
          /\ PostSteps = <<"rotate", "translate">>
          /\ steps[Len(steps)] = "translate"
          /\ v[init_vert] = RefV[init_vert]

\* C9: encoder and decoder agree on the orientation of every transition
\* rotation. (1) to_coords stores frame[a]^T * frame[b] for the inner edge
\* between faces a < b. (2) The tree initialization uses that block untransposed
\* exactly when source < target, so that it always uses the transition from the
\* source to the target. (3) The local step selects, for every face i and
\* neighbour n across an inner edge, exactly one orientation (never the sum of
\* both, never the zero block): untransposed exactly when n < i, i.e. the
\* transition from the neighbour (source) to the face (target); so do all the
\* contributions recorded in Dijk. (C is assigned by to_coords and CCpath by
\* lines 149-153 and neither is assigned again: they are examined where
\* from_coords is entered and where the walk runs.)
C9_OrientationAgrees ==
    /\ pc = "fc_entry" =>
          /\ \A e \in inner_edges : e[1] < e[2] => C[e[3]] = <<e[1], e[2]>>
          /\ \A e \in inner_edges :
                LET T == LocalTransition(inner_edges, C, e[1], e[2])
                IN  /\ T = <<e[2], e[1]>>
                    /\ (T = C[e[3]]) <=> (e[2] < e[1])
                    /\ (T = Transpose(C[e[3]])) <=> (e[1] < e[2])
    /\ pc = "fc_walk" =>
          \A k \in 1 .. Len(spanningTreePath) :
             LET t == spanningTreePath[k]
             IN  /\ CCpath[k] = <<t[2], t[3]>>
                 /\ (CCpath[k] = C[t[1]]) <=> (t[2] < t[3])
                 /\ (CCpath[k] = Transpose(C[t[1]])) <=> (t[3] < t[2])
    /\ Dijk # <<>> =>
          \A f \in Faces : \A k \in 1 .. Len(Dijk[f]) :
             Dijk[f][k][1] = "nb" => Dijk[f][k][4] = <<Dijk[f][k][2], f>>

\* a local step has run on a mesh where the walk went from a larger to a smaller
\* face id and from a smaller to a larger one, and where contributions came from
\* a smaller and from a larger neighbour
C9_Witness ==
    /\ pc = "fc_recenter"
    /\ \E k \in 1 .. Len(spanningTreePath) : spanningTreePath[k][2] > spanningTreePath[k][3]
    /\ \E k \in 1 .. Len(spanningTreePath) : spanningTreePath[k][2] < spanningTreePath[k][3]
    /\ \E f \in Faces : \E k \in 1 .. Len(Dijk[f]) :
          Dijk[f][k][1] = "nb" /\ Dijk[f][k][2] < f
    /\ \E f \in Faces : \E k \in 1 .. Len(Dijk[f]) :
          Dijk[f][k][1] = "nb" /\ Dijk[f][k][2] > f

\* C10 as stated: after every local step the blended matrix of each face with
\* 1, 2 or 3 inner-edge neighbours is the sum of exactly one contribution of
\* this iteration per neighbour and nothing else.
C10_BlendIsSumOverNeighbours ==
    pc = "fc_recenter" =>
        \A f \in Faces :
           LET nbs == NeighboursOf(inner_edges, f)
           IN  Cardinality(nbs) \in 1 .. 3 =>
                  /\ Len(Dijk[f]) = Cardinality(nbs)
                  /\ \A k \in 1 .. Len(Dijk[f]) :
                        Dijk[f][k][1] = "nb" /\ Dijk[f][k][3] = n_iter
                  /\ \A n \in nbs :
                        Cardinality({k \in 1 .. Len(Dijk[f]) : Dijk[f][k][2] = n}) = 1


(***************************************************************************)
(* Claims about projToGeodesic.                                            *)
(***************************************************************************)
Moves == Len(trail) - 1

Abs(n) == IF n < 0 THEN -n ELSE n

\* |<v, log(A, P)>| < 1e-6 for the unit vector v along log(X, Y)
BelowTolerance(A) ==
    /\ X # Y
    /\ ~IsNaN(A)
    /\ Abs(Numerator(A)) * Abs(Numerator(A)) < TolUnits * TolUnits * DirNorm2

\* C5: projToGeodesic ends after at most max_iter passes and at most max_iter exp
\* moves; every move follows a pass whose test failed and is the exp move of
\* that pass; it returns at the first pass whose |<v, log(current, P)>| is below
\* the tolerance, with the current point of that pass unmoved, and otherwise
\* the point reached after max_iter moves (X for max_iter = 0).
C5_ProjTerminates ==
    /\ passes <= max_iter
    /\ Moves <= max_iter
    /\ gpc = "loop" => ENABLED ProjNext
    /\ trail[1] = X
    /\ Pi = trail[Len(trail)]
    /\ \A j \in 1 .. Moves :
          /\ ~BelowTolerance(trail[j])
          /\ trail[j + 1] = Exp(trail[j], StepVector(trail[j]))
    /\ gpc = "returned" =>
          \/ BelowTolerance(Pi) /\ passes = Moves + 1
          \/ Moves = max_iter /\ passes = max_iter
    /\ (gpc = "returned" /\ max_iter = 0) => Pi = X

\* a call that moved once and stopped at its second pass, with passes to spare
C5_Witness ==
    /\ gpc = "returned"
    /\ Moves = 1
    /\ passes = 2
    /\ max_iter = 3
    /\ Pi # X

\* P = geopoint(X, Y, t) for some t in [0, 1]
OnGeodesic ==
    \E g \in (0 - CircleSteps) .. CircleSteps, h \in (0 - MaxStretch) .. MaxStretch :
        /\ g * DirLog[3] = h * DirLog[2]
        /\ g * DirLog[2] >= 0 /\ h * DirLog[3] >= 0
        /\ Abs(g) <= Abs(DirLog[2]) /\ Abs(h) <= Abs(DirLog[3])
        /\ P = Exp(X, Num(g, h))

\* the distance from A to B is below the stopping tolerance
WithinTolerance(A, B) ==
    /\ ~IsNaN(A)
    /\ Inner(metric, Log(A, B), Log(A, B)) < TolUnits * TolUnits

\* C6 as stated: for every X, Y, every P on the geodesic from X to Y and every
\* max_iter, projToGeodesic returns P within the stopping tolerance.
C6_Original ==
    (gpc = "returned" /\ OnGeodesic) => WithinTolerance(Pi, P)

\* C6 as amended: for X # Y, P on the geodesic from X to Y and max_iter >= 1,
\* projToGeodesic returns P within the stopping tolerance (P itself whenever it
\* has moved).
C6_Idempotent ==
    (gpc = "returned" /\ OnGeodesic /\ X # Y /\ max_iter >= 1) =>
        /\ WithinTolerance(Pi, P)
        /\ Moves >= 1 => Pi = P

\* a projection of an interior point of a geodesic that turns and stretches,
\* reached by one move
C6_Witness ==
    /\ gpc = "returned"
    /\ OnGeodesic
    /\ max_iter >= 1
    /\ DirLog[2] # 0 /\ DirLog[3] # 0
    /\ P # X /\ P # Y
    /\ Moves = 1
    /\ Pi = P


(***************************************************************************)
(* Claims about what the operations change.                                *)
(***************************************************************************)
\* C7: only update_ref_geom mutates the model. A step of one of the seventeen
\* other operations leaves the reference vertices, the center of gravity, the
\* Poisson factorization, the frame field, the metric, the spanning-tree path
\* and every array of the caller (the arguments among them) as they were. A
\* step of update_ref_geom makes its argument the reference vertices, builds
\* center of gravity, Poisson factorization, frame field and metric anew from
\* that argument, and leaves the caller's arrays alone. The spanning-tree path
\* stays as computed at construction through every step.
C7_OnlyUpdateMutates ==
    [][ /\ op' \in ReadOps =>
              /\ refv' = refv
              /\ \A i \in DOMAIN heap : heap'[i] = heap[i]
        /\ op' = "update_ref_geom" =>
              /\ refv' \in CallerArrays
              /\ \A i \in DerivedCells :
                    /\ heap'[i][1] = heap[refv'][1]
                    /\ heap'[i][2] = heap[i][2] + 1
                    /\ heap'[i][3] = 0
              /\ \A i \in CallerArrays : heap'[i] = heap[i]
        /\ heap'[PathCell] = ConstructedPathCell
        /\ heap'[PathCell] = heap[PathCell] ]_vars

\* two updates were made, the later one to vertices that differ from those the
\* model held and that an operation had returned, and an operation ran since
C7_Witness ==
    /\ op \in ReadOps
    /\ heap[CoGCell][2] = 2
    /\ refv = 2
    /\ heap[refv][1] # heap[1][1]
    /\ heap[CoGCell][1] = heap[refv][1]


(***************************************************************************)
(* Claims about the order of the spanning-tree path.                       *)
(***************************************************************************)
\* the number of inner edges on a shortest chain of faces from a face of S to f
\* (k counts the edges crossed so far; -1 when there is none)
RECURSIVE DistFrom(_, _, _, _)
DistFrom(M, S, f, k) ==
    LET T == S \cup {b \in Faces : \E a \in S : Adjacent(M, a, b)}
    IN  IF f \in S THEN k
        ELSE IF T = S THEN 0 - 1
        ELSE DistFrom(M, T, f, k + 1)

BfsDepth(f) == DistFrom(inner_edges, {init_face}, f, 0)

\* the triples at positions 1 .. j - 1 of the path have f as their target
EarlierTarget(f, j) == \E k \in 1 .. (j - 1) : spanningTreePath[k][3] = f

\* C11: the path is ordered for the decoder's initialization walk. (1) In the
\* path, while it is built and when it is returned, the source face of every
\* triple is the initial face or the target of a strictly earlier triple, and
\* the depth of the targets is non-decreasing along the path; in the returned
\* path that depth is the breadth-first depth of the face. (2) While
\* from_coords walks the path: no rotation is assigned twice; the rotations of
\* the triples processed so far were assigned once and those of the triples
\* still to come, and of the initial face, not at all; the triple to be
\* processed next reads a source that is the initial face or was assigned
\* already; and every processed target still is its source's rotation, as it
\* is now, followed by the triple's transition, so the source was final when
\* it was read and the target was not written again.
C11_WalkOrder ==
    /\ pc \in {"tree_while", "tree_for", "constructed"} =>
          /\ \A j \in 1 .. Len(spanningTreePath) :
                \/ spanningTreePath[j][2] = init_face
                \/ EarlierTarget(spanningTreePath[j][2], j)
          /\ \A j \in 1 .. (Len(spanningTreePath) - 1) :
                depth[spanningTreePath[j][3]] <= depth[spanningTreePath[j + 1][3]]
    /\ pc = "constructed" =>
          \A j \in 1 .. Len(spanningTreePath) :
             depth[spanningTreePath[j][3]] = BfsDepth(spanningTreePath[j][3])
    /\ pc = "fc_walk" =>
          /\ \A f \in Faces : Rwrites[f] <= 1
          /\ Rwrites[init_face] = 0
          /\ \A j \in 1 .. Len(spanningTreePath) :
                Rwrites[spanningTreePath[j][3]] = (IF j <= l THEN 1 ELSE 0)
          /\ l < Len(spanningTreePath) =>
                \/ spanningTreePath[l + 1][2] = init_face
                \/ /\ Rwrites[spanningTreePath[l + 1][2]] = 1
                   /\ EarlierTarget(spanningTreePath[l + 1][2], l + 1)
          /\ \A j \in 1 .. l :
                R[spanningTreePath[j][3]] = Append(R[spanningTreePath[j][2]], CCpath[j])

\* the walk has finished on a path of at least three triples, one of which
\* starts at a face other than the initial face and ends two edges away from
\* it, on a mesh that has an inner edge outside the tree
C11_Witness ==
    /\ pc = "fc_walk"
    /\ l = Len(spanningTreePath)
    /\ l >= 3
    /\ \E j \in 1 .. l :
          /\ spanningTreePath[j][2] # init_face
          /\ Len(R[spanningTreePath[j][3]]) = 2
    /\ Cardinality(inner_edges) > 2 * Len(spanningTreePath)


Init ==
    /\ \E E \in Meshes : inner_edges = InnerEdgesOf(E)
    /\ init_face \in Faces
    /\ integration_iter \in -1 .. MaxIter
    /\ pc = "tree_while"
    /\ TreeInit
    /\ DecInit
    /\ GeoIdle
    /\ ModelIdle

Next ==
    \/ TreePop
    \/ TreeSkip
    \/ TreeDiscover
    \/ TreeForEnd
    \/ TreeReturn
    \/ ToCoords
    \/ FcOrganize
    \/ FcWalk
    \/ FcSetup
    \/ FcGlobal
    \/ FcLoopExit
    \/ FcBreak
    \/ FcLocal
    \/ FcRecenter
    \/ FcPostRaise
    \/ FcPostRotate
    \/ FcPostTranslate

Spec == Init /\ [][Next]_vars

(***************************************************************************)
(* Construction alone: setup_spanning_tree_path on every mesh and every    *)
(* initial face, with the default iteration count.                         *)
(***************************************************************************)
TreeSpecInit ==
    /\ Init
    /\ integration_iter = 2

TreeNext ==
    \/ TreePop
    \/ TreeSkip
    \/ TreeDiscover
    \/ TreeForEnd
    \/ TreeReturn

SpecTree == TreeSpecInit /\ [][TreeNext]_vars
====
